---- MODULE Spec2Model ----
(***************************************************************************)
(* A model of regexp-composer (src/src/RegExpBuilder.ts): the pattern AST, *)
(* its constructors, the encoder encodePattern and the optionality         *)
(* analyser isPatternOptional.                                             *)
(*                                                                         *)
(* JavaScript values are tagged records.  A string is                      *)
(* [type |-> "string", text |-> <<c1, ..., cn>>] where every ci is one     *)
(* Unicode code point (written as a TLA+ string); an array is              *)
(* [type |-> "array", elements |-> <<...>>]; a number is                   *)
(* [type |-> "number", value |-> n]; an AST node is the record the source  *)
(* builds, with its own `type` field.  A call either returns a value or    *)
(* throws: [ok |-> TRUE, val |-> v] or [ok |-> FALSE, error |-> e].        *)
(***************************************************************************)
EXTENDS Integers, Sequences, FiniteSets, TLC

\* pc: whether a call is being awaited ("idle") or has completed ("done");
\* call: the function called last and its arguments; ret: what it returned or
\* threw; lookupTables: the capture tables as the last call of
\* isPatternOptional left them; earlierTables: the tables that were left when
\* that call began.
VARIABLES pc, call, ret, lookupTables, earlierTables

vars == <<pc, call, ret, lookupTables, earlierTables>>

----------------------------------------------------------------------------
(* Results of calls *)

Return(v) == [ok |-> TRUE, val |-> v, error |-> ""]

Throw(e) == [ok |-> FALSE, val |-> <<>>, error |-> e]

\* The first exception thrown while the results were produced left to right,
\* or the sequence of the returned values.
Collect(results) ==
    IF \A i \in 1..Len(results) : results[i].ok
    THEN Return([i \in 1..Len(results) |-> results[i].val])
    ELSE results[CHOOSE i \in 1..Len(results) :
                    /\ ~results[i].ok
                    /\ \A j \in 1..(i - 1) : results[j].ok]

----------------------------------------------------------------------------
(* Strings: sequences of code points *)

RECURSIVE Flatten(_)
Flatten(strings) ==
    IF Len(strings) = 0 THEN <<>> ELSE Head(strings) \o Flatten(Tail(strings))

\* Array.prototype.join
RECURSIVE Join(_, _)
Join(strings, separator) ==
    IF Len(strings) = 0 THEN <<>>
    ELSE IF Len(strings) = 1 THEN strings[1]
    ELSE strings[1] \o separator \o Join(Tail(strings), separator)

\* The text of a string as one TLA+ string, to compare it with a literal.
RECURSIVE Str(_)
Str(s) == IF Len(s) = 0 THEN "" ELSE Head(s) \o Str(Tail(s))

\* Code points outside the Basic Multilingual Plane take two UTF-16 units.
AstralChars == {"<U+1F600>"}

Utf16Length(char) == IF char \in AstralChars THEN 2 ELSE 1

RECURSIVE StringLength(_)
StringLength(str) ==
    IF Len(str) = 0 THEN 0 ELSE Utf16Length(Head(str)) + StringLength(Tail(str))

DecimalDigits == <<"0", "1", "2", "3", "4", "5", "6", "7", "8", "9">>

HexDigitsLower == DecimalDigits \o <<"a", "b", "c", "d", "e", "f">>

HexDigitsUpper == DecimalDigits \o <<"A", "B", "C", "D", "E", "F">>

\* Number.prototype.toString(radix) of a non-negative integer
RECURSIVE NatToString(_, _)
NatToString(n, digits) ==
    IF n < Len(digits) THEN <<digits[n + 1]>>
    ELSE NatToString(n \div Len(digits), digits) \o <<digits[(n % Len(digits)) + 1]>>

\* Number.prototype.toString(radix) of an integer
NumberToString(n, digits) ==
    IF n < 0 THEN <<"-">> \o NatToString(0 - n, digits) ELSE NatToString(n, digits)

\* The value `Infinity`.  Every other number of the model is an integer of
\* small magnitude.
Infinity == 2147483647

\* Template-literal formatting of a number: `${n}`
NumberToDecimal(n) ==
    IF n = Infinity THEN <<"I", "n", "f", "i", "n", "i", "t", "y">>
    ELSE NumberToString(n, DecimalDigits)

\* x | 0 (ToInt32): Infinity becomes 0, an integer within the 32-bit range is kept.
ToInt32(x) == IF x = Infinity THEN 0 ELSE x

----------------------------------------------------------------------------
(* Type tests (src lines 827-837) *)

StringValue(text) == [type |-> "string", text |-> text]

ArrayValue(elements) == [type |-> "array", elements |-> elements]

NumberValue(n) == [type |-> "number", value |-> n]

isString(data) == data.type = "string"

isNumber(data) == data.type = "number"

isArray(data) == data.type = "array"

isSingleUnicodeCodepoint(str) ==
    IF Len(str) > 0
    THEN Return(Utf16Length(str[1]) = StringLength(str))
    ELSE Throw("Zero-length string")

isClassToken(pattern) == pattern.type = "specialToken"

\* Any string taken for a single character, whatever its length
isSingleCharPattern_AnyString(pattern) ==
    Return(isString(pattern) \/ isClassToken(pattern))

isSingleCharPattern(pattern) ==
    IF isString(pattern)
    THEN LET single == isSingleUnicodeCodepoint(pattern.text)
         IN  IF ~single.ok THEN single
             ELSE Return(single.val \/ isClassToken(pattern))
    ELSE Return(isClassToken(pattern))

isStringOrClassToken(pattern) == isString(pattern) \/ isClassToken(pattern)

----------------------------------------------------------------------------
(* escapeStringForRegExp *)

\* The character class with the closing bracket left out
EscapedChars_NoClosingBracket ==
    {".", "*", "+", "?", "^", "$", "{", "}", "(", ")", "|", "[", "\\"}

\* The character class of the regular expression /[.*+?^${}()|[\]\\]/g
EscapedChars ==
    {".", "*", "+", "?", "^", "$", "{", "}", "(", ")", "|", "[", "]", "\\"}

RECURSIVE escapeStringForRegExp(_)
escapeStringForRegExp(str) ==
    IF Len(str) = 0 THEN <<>>
    ELSE (IF Head(str) \in EscapedChars THEN <<"\\", Head(str)>> ELSE <<Head(str)>>)
         \o escapeStringForRegExp(Tail(str))

----------------------------------------------------------------------------
(* AST building functions *)

Undefined == [type |-> "undefined"]

possibly(pattern) == [type |-> "possibly", content |-> pattern]

zeroOrMore(pattern) == [type |-> "zeroOrMore", content |-> pattern, greedy |-> TRUE]

zeroOrMoreNonGreedy(pattern) ==
    [type |-> "zeroOrMore", content |-> pattern, greedy |-> FALSE]

oneOrMore(pattern) == [type |-> "oneOrMore", content |-> pattern, greedy |-> TRUE]

oneOrMoreNonGreedy(pattern) ==
    [type |-> "oneOrMore", content |-> pattern, greedy |-> FALSE]

RepeatedNode(minCount, maxCount, pattern, greedy) ==
    [type |-> "repeated", minCount |-> minCount, maxCount |-> maxCount,
     content |-> pattern, greedy |-> greedy]

\* range[1] ?? Infinity
RangeMax(range) ==
    IF Len(range.elements) >= 2 THEN range.elements[2] ELSE Infinity

\* The check on the shape of a RepeatedRange
RangeLengthInvalid(range) == Len(range.elements) = 0 \/ Len(range.elements) > 2

\* countOrRange is a number or an array of numbers
repeated(countOrRange, pattern) ==
    IF isNumber(countOrRange)
    THEN Return(RepeatedNode(ToInt32(countOrRange.value), ToInt32(countOrRange.value),
                             pattern, TRUE))
    ELSE IF RangeLengthInvalid(countOrRange)
    THEN Throw("Range should either be [min] or [min, max]")
    ELSE Return(RepeatedNode(ToInt32(countOrRange.elements[1]),
                             ToInt32(RangeMax(countOrRange)), pattern, TRUE))

repeatedNonGreedy(pattern, range) ==
    IF RangeLengthInvalid(range)
    THEN Throw("Range should either be [min] or [min, max]")
    ELSE Return(RepeatedNode(ToInt32(range.elements[1]), ToInt32(RangeMax(range)),
                             pattern, FALSE))

precededBy(pattern) == [type |-> "precededBy", content |-> pattern]

notPrecededBy(pattern) == [type |-> "notPrecededBy", content |-> pattern]

followedBy(pattern) == [type |-> "followedBy", content |-> pattern]

notFollowedBy(pattern) == [type |-> "notFollowedBy", content |-> pattern]

anyOf(members) == [type |-> "anyOf", members |-> members]

notAnyOf(members) == [type |-> "notAnyOf", members |-> members]

capture(pattern) == [type |-> "capture", name |-> Undefined, content |-> pattern]

captureAs(name, pattern) ==
    [type |-> "capture", name |-> StringValue(name), content |-> pattern]

\* captureGroupNameOrIndex is a string or an integer number
sameAs(captureGroupNameOrIndex) ==
    IF isString(captureGroupNameOrIndex) /\ Len(captureGroupNameOrIndex.text) = 0
    THEN Throw("'sameAs' capture group name cannot be empty")
    ELSE IF isNumber(captureGroupNameOrIndex)
            /\ (captureGroupNameOrIndex.value < 1 \/ captureGroupNameOrIndex.value > 99)
    THEN Throw("'sameAs' capture group index can only be between 1 and 99")
    ELSE Return([type |-> "sameAs", captureGroupNameOrIndex |-> captureGroupNameOrIndex])

SpecialToken(name, rawRegExp) ==
    [type |-> "specialToken", name |-> name, rawRegExp |-> rawRegExp]

unicodeProperty(property) ==
    SpecialToken("unicodeProperty", <<"\\", "p", "{">> \o property \o <<"}">>)

inputStart == SpecialToken("inputStart", <<"^">>)

inputEnd == SpecialToken("inputEnd", <<"$">>)

anyChar == SpecialToken("anyChar", <<".">>)

whitespace == SpecialToken("whitespace", <<"\\", "s">>)

digit == SpecialToken("digit", <<"\\", "d">>)

lineFeed == SpecialToken("lineFeed", <<"\\", "n">>)

----------------------------------------------------------------------------
(* Single character patterns: codepoint, charRange *)

UpperLetters ==
    <<"A", "B", "C", "D", "E", "F", "G", "H", "I", "J", "K", "L", "M",
      "N", "O", "P", "Q", "R", "S", "T", "U", "V", "W", "X", "Y", "Z">>

LowerLetters ==
    <<"a", "b", "c", "d", "e", "f", "g", "h", "i", "j", "k", "l", "m",
      "n", "o", "p", "q", "r", "s", "t", "u", "v", "w", "x", "y", "z">>

IndexOf(char, chars) ==
    IF \E i \in 1..Len(chars) : chars[i] = char
    THEN CHOOSE i \in 1..Len(chars) : chars[i] = char
    ELSE 0

\* String.prototype.toLowerCase
toLowerCase(str) ==
    [i \in 1..Len(str) |->
        IF IndexOf(str[i], UpperLetters) > 0
        THEN LowerLetters[IndexOf(str[i], UpperLetters)]
        ELSE str[i]]

\* String.prototype.toUpperCase
toUpperCase(str) ==
    [i \in 1..Len(str) |->
        IF IndexOf(str[i], LowerLetters) > 0
        THEN UpperLetters[IndexOf(str[i], LowerLetters)]
        ELSE str[i]]

IsHexDigit(char) ==
    IndexOf(char, HexDigitsLower) > 0 \/ IndexOf(char, HexDigitsUpper) > 0

HexDigitValue(char) ==
    IF IndexOf(char, HexDigitsLower) > 0
    THEN IndexOf(char, HexDigitsLower) - 1
    ELSE IndexOf(char, HexDigitsUpper) - 1

WhiteSpaceChars == {" ", "\t", "\n", "\r"}

RECURSIVE DropWhile(_, _)
DropWhile(str, chars) ==
    IF Len(str) > 0 /\ Head(str) \in chars THEN DropWhile(Tail(str), chars) ELSE str

\* The value of the longest prefix of hexadecimal digits of str, after acc
RECURSIVE HexPrefixValue(_, _)
HexPrefixValue(str, acc) ==
    IF Len(str) > 0 /\ IsHexDigit(Head(str))
    THEN HexPrefixValue(Tail(str), (acc * 16) + HexDigitValue(Head(str)))
    ELSE acc

\* Number.parseInt(str, 16): leading white space, a sign and a 0x prefix are
\* skipped, the digits read stop at the first character that is no digit, and
\* the result is NaN when no digit was read.
parseInt16(str) ==
    LET trimmed  == DropWhile(str, WhiteSpaceChars)
        negative == Len(trimmed) > 0 /\ Head(trimmed) = "-"
        unsigned == IF Len(trimmed) > 0 /\ Head(trimmed) \in {"+", "-"}
                    THEN Tail(trimmed) ELSE trimmed
        digits   == IF Len(unsigned) >= 2 /\ unsigned[1] = "0" /\ unsigned[2] \in {"x", "X"}
                    THEN Tail(Tail(unsigned)) ELSE unsigned
        value    == HexPrefixValue(digits, 0)
    IN  IF Len(digits) = 0 \/ ~IsHexDigit(Head(digits))
        THEN [nan |-> TRUE, value |-> 0]
        ELSE [nan |-> FALSE, value |-> IF negative THEN 0 - value ELSE value]

\* /^[0-9a-fA-F]{1, 6}$/.test(str).  The expression has no `u` flag and
\* `{1, 6}` (with a space) is no quantifier, so the braces and what is between
\* them match themselves: one hexadecimal digit followed by the text "{1, 6}".
CodepointHexRegExpTest(str) ==
    /\ Len(str) = 7
    /\ IsHexDigit(str[1])
    /\ SubSeq(str, 2, 7) = <<"{", "1", ",", " ", "6", "}">>

MaxCodepoint == 1114111

\* numericCodepoint is [nan |-> BOOLEAN, value |-> Int]
assertValidNumericCodepoint(numericCodepoint) ==
    IF numericCodepoint.nan
    THEN Throw("Codepoint is to NaN")
    ELSE IF numericCodepoint.value < 0 \/ numericCodepoint.value > MaxCodepoint
    THEN Throw("Codepoint is outside the accepted range of 0 to 1,114,111 (inclusive)")
    ELSE Return(<<>>)

CodepointToken(unicodeCodepoint) ==
    SpecialToken("codepoint", <<"\\", "u", "{">> \o unicodeCodepoint \o <<"}">>)

\* unicodeCodepoint is a number (an integer) or a string
codepoint(unicodeCodepoint) ==
    IF isNumber(unicodeCodepoint)
    THEN LET valid == assertValidNumericCodepoint(
                          [nan |-> FALSE, value |-> unicodeCodepoint.value])
         IN  IF ~valid.ok THEN valid
             ELSE Return(CodepointToken(NumberToString(unicodeCodepoint.value,
                                                       HexDigitsLower)))
    ELSE LET lower == toLowerCase(unicodeCodepoint.text)
             valid == assertValidNumericCodepoint(parseInt16(lower))
         IN  IF CodepointHexRegExpTest(lower)
             THEN Throw("Codepoint is invalid. It can only include between 1 and 6 hexedecimal digits.")
             ELSE IF ~valid.ok THEN valid
             ELSE Return(CodepointToken(lower))

\* String.prototype.codePointAt(0) over the characters the model uses; -1
\* stands for `undefined` (the empty string), which compares false with `>`.
CodePointOf(char) ==
    CASE char = " " -> 32
      [] char = "-" -> 45
      [] char = "\\" -> 92
      [] char = "^" -> 94
      [] char = "]" -> 93
      [] IndexOf(char, DecimalDigits) > 0 -> 47 + IndexOf(char, DecimalDigits)
      [] IndexOf(char, UpperLetters) > 0 -> 64 + IndexOf(char, UpperLetters)
      [] IndexOf(char, LowerLetters) > 0 -> 96 + IndexOf(char, LowerLetters)
      [] char \in AstralChars -> 128512

codePointAt0(str) == IF Len(str) = 0 THEN -1 ELSE CodePointOf(str[1])

\* The comparison of the two code points the other way round
CodePointGreater_Reversed(a, b) == a # -1 /\ b # -1 /\ a < b

\* a > b on the results of codePointAt(0): false when either is undefined
CodePointGreater(a, b) == a # -1 /\ b # -1 /\ a > b

\* startChar === '-' ? '\\-' : startChar
EscapeRangeBound(char) == IF char = <<"-">> THEN <<"\\", "-">> ELSE char

charRange(startChar, endChar) ==
    IF CodePointGreater(codePointAt0(startChar), codePointAt0(endChar))
    THEN Throw("Character range is invalid.")
    ELSE Return(SpecialToken("charRange",
                    EscapeRangeBound(startChar) \o <<"-">> \o EscapeRangeBound(endChar)))

----------------------------------------------------------------------------
(* codepointRange *)

CodepointRangeToken(start, end) ==
    SpecialToken("codepointRange",
                 <<"\\", "u", "{">> \o start \o <<"}", "-", "\\", "u", "{">> \o end
                 \o <<"}">>)

\* start.toString(16) of a number, then toUpperCase() of the string
RangeHexCode(code) ==
    toUpperCase(IF isNumber(code) THEN NumberToString(code.value, HexDigitsLower)
                ELSE code.text)

\* a > b on two results of Number.parseInt: false when either is NaN
ParsedGreater(a, b) == ~a.nan /\ ~b.nan /\ a.value > b.value

\* start and end are numbers (integers) or strings
codepointRange(start, end) ==
    LET startHex == RangeHexCode(start)
        endHex   == RangeHexCode(end)
    IN  IF ParsedGreater(parseInt16(startHex), parseInt16(endHex))
        THEN Throw("Character range is invalid.")
        ELSE Return(CodepointRangeToken(startHex, endHex))

----------------------------------------------------------------------------
(* Match patterns *)

\* A MatchesConditions object: the patterns under the names that are given
MatchesConditions(slots) == [type |-> "conditions", slots |-> slots]

\* conditions.name: the pattern under the name, or undefined
ConditionOf(conditions, name) ==
    IF name \in DOMAIN conditions.slots THEN conditions.slots[name] ELSE Undefined

\* if (value): undefined and the empty string are falsy, every other pattern
\* (a non-empty string, an array, a node) is truthy
IsTruthy(value) ==
    /\ value.type # "undefined"
    /\ ~(isString(value) /\ Len(value.text) = 0)

\* if (value) { patterns.push(node) }
PushIf(patterns, value, node) ==
    IF IsTruthy(value) THEN Append(patterns, node) ELSE patterns

\* The assertions pushed to beforePattern with ifExtendsTo handled first
PushBefore_ExtendsToFirst(beforePattern, conditions) ==
    LET except          == ConditionOf(conditions, "except")
        ifPrecededBy    == ConditionOf(conditions, "ifPrecededBy")
        ifNotPrecededBy == ConditionOf(conditions, "ifNotPrecededBy")
        ifExtendsTo     == ConditionOf(conditions, "ifExtendsTo")
        p1 == PushIf(beforePattern, ifExtendsTo, followedBy(ifExtendsTo))
        p2 == PushIf(p1, except, notFollowedBy(except))
        p3 == PushIf(p2, ifPrecededBy, precededBy(ifPrecededBy))
    IN  PushIf(p3, ifNotPrecededBy, notPrecededBy(ifNotPrecededBy))

\* What one pass of the loop of matches pushes to beforePattern
PushBefore(beforePattern, conditions) ==
    LET except          == ConditionOf(conditions, "except")
        ifPrecededBy    == ConditionOf(conditions, "ifPrecededBy")
        ifNotPrecededBy == ConditionOf(conditions, "ifNotPrecededBy")
        ifExtendsTo     == ConditionOf(conditions, "ifExtendsTo")
        p1 == PushIf(beforePattern, except, notFollowedBy(except))
        p2 == PushIf(p1, ifPrecededBy, precededBy(ifPrecededBy))
        p3 == PushIf(p2, ifNotPrecededBy, notPrecededBy(ifNotPrecededBy))
    IN  PushIf(p3, ifExtendsTo, followedBy(ifExtendsTo))

\* What one pass of the loop of matches pushes to afterPattern
PushAfter(afterPattern, conditions) ==
    LET ifFollowedBy       == ConditionOf(conditions, "ifFollowedBy")
        ifNotFollowedBy    == ConditionOf(conditions, "ifNotFollowedBy")
        ifExtendsBackTo    == ConditionOf(conditions, "ifExtendsBackTo")
        ifNotExtendsBackTo == ConditionOf(conditions, "ifNotExtendsBackTo")
        p1 == PushIf(afterPattern, ifFollowedBy, followedBy(ifFollowedBy))
        p2 == PushIf(p1, ifNotFollowedBy, notFollowedBy(ifNotFollowedBy))
        p3 == PushIf(p2, ifExtendsBackTo, precededBy(ifExtendsBackTo))
    IN  PushIf(p3, ifNotExtendsBackTo, notPrecededBy(ifNotExtendsBackTo))

\* The loop of matches over conditionsArray, from position i on
RECURSIVE MatchesLoop(_, _, _, _)
MatchesLoop(conditionsArray, i, beforePattern, afterPattern) ==
    IF i > Len(conditionsArray)
    THEN [beforePattern |-> beforePattern, afterPattern |-> afterPattern]
    ELSE MatchesLoop(conditionsArray, i + 1,
                     PushBefore(beforePattern, conditionsArray[i]),
                     PushAfter(afterPattern, conditionsArray[i]))

matches(pattern, conditionsOrConditionsArray) ==
    LET conditionsArray == IF isArray(conditionsOrConditionsArray)
                           THEN conditionsOrConditionsArray.elements
                           ELSE <<conditionsOrConditionsArray>>
        pushed == MatchesLoop(conditionsArray, 1, <<>>, <<>>)
    IN  Return(ArrayValue(pushed.beforePattern \o <<pattern>> \o pushed.afterPattern))

----------------------------------------------------------------------------
(* Encoder functions *)

RECURSIVE encodePattern(_, _)
RECURSIVE encodePattern_anyOf(_)
RECURSIVE encodePattern_notAnyOf(_)
RECURSIVE encodePattern_possibly(_)
RECURSIVE encodePattern_zeroOrMore(_)
RECURSIVE encodePattern_oneOrMore(_)
RECURSIVE encodePattern_repeated(_)
RECURSIVE encodePattern_precededBy(_)
RECURSIVE encodePattern_notPrecededBy(_)
RECURSIVE encodePattern_followedBy(_)
RECURSIVE encodePattern_notFollowedBy(_)
RECURSIVE encodePattern_capture(_)

\* pattern.greedy ? '' : '?'
greedySuffix(pattern) == IF pattern.greedy THEN <<>> ELSE <<"?">>

NonCapturingGroup(contentString) == <<"(", "?", ":">> \o contentString \o <<")">>

\* The tail shared by possibly, zeroOrMore and oneOrMore: the content bare when
\* it is a string or a class token, in a non-capturing group otherwise.
QuantifiedString(pattern, contentString, suffix) ==
    IF isStringOrClassToken(pattern.content)
    THEN contentString \o suffix
    ELSE NonCapturingGroup(contentString) \o suffix

\* wrapRangeTokens && (name === 'charRange' || name === 'codepointRange')
encodePattern_specialToken(pattern, wrapRangeTokens) ==
    IF wrapRangeTokens /\ pattern.name \in {"charRange", "codepointRange"}
    THEN <<"[">> \o pattern.rawRegExp \o <<"]">>
    ELSE pattern.rawRegExp

\* A numbered backreference written without the group around it
encodePattern_sameAs_Bare(pattern) ==
    IF isString(pattern.captureGroupNameOrIndex)
    THEN <<"\\", "k", "<">> \o pattern.captureGroupNameOrIndex.text \o <<">">>
    ELSE <<"\\">> \o NumberToDecimal(pattern.captureGroupNameOrIndex.value)

encodePattern_sameAs(pattern) ==
    IF isString(pattern.captureGroupNameOrIndex)
    THEN <<"\\", "k", "<">> \o pattern.captureGroupNameOrIndex.text \o <<">">>
    ELSE NonCapturingGroup(<<"\\">> \o NumberToDecimal(pattern.captureGroupNameOrIndex.value))

encodePattern(pattern, wrapRangeTokens) ==
    IF isString(pattern) THEN Return(escapeStringForRegExp(pattern.text))
    ELSE IF isArray(pattern) THEN
        LET parts == Collect([i \in 1..Len(pattern.elements) |->
                                 encodePattern(pattern.elements[i], TRUE)])
        IN  IF parts.ok THEN Return(Join(parts.val, <<>>)) ELSE parts
    ELSE CASE pattern.type = "specialToken" ->
                  Return(encodePattern_specialToken(pattern, wrapRangeTokens))
           [] pattern.type = "possibly" -> encodePattern_possibly(pattern)
           [] pattern.type = "zeroOrMore" -> encodePattern_zeroOrMore(pattern)
           [] pattern.type = "oneOrMore" -> encodePattern_oneOrMore(pattern)
           [] pattern.type = "anyOf" -> encodePattern_anyOf(pattern)
           [] pattern.type = "notAnyOf" -> encodePattern_notAnyOf(pattern)
           [] pattern.type = "capture" -> encodePattern_capture(pattern)
           [] pattern.type = "repeated" -> encodePattern_repeated(pattern)
           [] pattern.type = "followedBy" -> encodePattern_followedBy(pattern)
           [] pattern.type = "notFollowedBy" -> encodePattern_notFollowedBy(pattern)
           [] pattern.type = "precededBy" -> encodePattern_precededBy(pattern)
           [] pattern.type = "notPrecededBy" -> encodePattern_notPrecededBy(pattern)
           [] pattern.type = "sameAs" -> Return(encodePattern_sameAs(pattern))
           [] OTHER -> Throw("Unrecognized pattern type")

\* The first loop of encodePattern_anyOf, from member i on: a member joins the
\* last group when that group is empty or holds patterns of its own kind.
RECURSIVE GroupMembers(_, _, _)
GroupMembers(members, i, patternGroups) ==
    IF i > Len(members) THEN Return(patternGroups)
    ELSE LET member    == members[i]
             last      == Len(patternGroups)
             lastGroup == patternGroups[last]
             pushed    == [patternGroups EXCEPT ![last] = Append(lastGroup, member)]
         IN  IF Len(lastGroup) = 0 THEN GroupMembers(members, i + 1, pushed)
             ELSE LET memberIsSingle == isSingleCharPattern(member)
                      groupIsSingle  == isSingleCharPattern(lastGroup[1])
                  IN  IF ~memberIsSingle.ok THEN memberIsSingle
                      ELSE IF ~groupIsSingle.ok THEN groupIsSingle
                      ELSE IF memberIsSingle.val = groupIsSingle.val
                      THEN GroupMembers(members, i + 1, pushed)
                      ELSE GroupMembers(members, i + 1,
                                        Append(patternGroups, <<member>>))

NonEmptyStrings(strings) == SelectSeq(strings, LAMBDA value : Len(value) > 0)

\* The hyphens of a character class left as they are
EscapeDashes_None(encodedPatternsGroup) == encodedPatternsGroup

\* Ensure `-` is correctly escaped, since it's inside a character class
EscapeDashes(encodedPatternsGroup) ==
    [i \in 1..Len(encodedPatternsGroup) |->
        IF encodedPatternsGroup[i] = <<"-">> THEN <<"\\", "-">>
        ELSE encodedPatternsGroup[i]]

CharClassString(encodedPatternsGroup) ==
    <<"[">> \o Join(encodedPatternsGroup, <<>>) \o <<"]">>

\* The body of the second loop of encodePattern_anyOf: the strings one pattern
\* group adds to disjunctionMemberStrings.
EncodePatternGroup(patternGroup) ==
    IF Len(patternGroup) = 0 THEN Return(<<>>)
    ELSE LET firstIsSingle == isSingleCharPattern(patternGroup[1])
         IN  IF ~firstIsSingle.ok THEN firstIsSingle
             ELSE IF firstIsSingle.val
             THEN LET encoded == Collect([i \in 1..Len(patternGroup) |->
                                             encodePattern(patternGroup[i], FALSE)])
                  IN  IF ~encoded.ok THEN encoded
                      ELSE LET encodedPatternsGroup ==
                                   EscapeDashes(NonEmptyStrings(encoded.val))
                           IN  IF Len(encodedPatternsGroup) > 0
                               THEN Return(<<CharClassString(encodedPatternsGroup)>>)
                               ELSE Return(<<>>)
             ELSE LET encoded == Collect([i \in 1..Len(patternGroup) |->
                                             encodePattern(patternGroup[i], TRUE)])
                  IN  IF ~encoded.ok THEN encoded
                      ELSE Return(NonEmptyStrings(encoded.val))

DisjunctionString(disjunctionMemberStrings) ==
    NonCapturingGroup(Join(disjunctionMemberStrings, <<"|">>))

encodePattern_anyOf(pattern) ==
    LET members == pattern.members
    IN  IF Len(members) = 0 THEN Return(<<>>)
        ELSE LET patternGroups == GroupMembers(members, 1, << <<>> >>)
             IN  IF ~patternGroups.ok THEN patternGroups
                 ELSE LET groupStrings ==
                              Collect([g \in 1..Len(patternGroups.val) |->
                                          EncodePatternGroup(patternGroups.val[g])])
                      IN  IF ~groupStrings.ok THEN groupStrings
                          ELSE LET disjunctionMemberStrings == Flatten(groupStrings.val)
                               IN  IF Len(disjunctionMemberStrings) = 0
                                   THEN Return(<<>>)
                                   ELSE Return(DisjunctionString(disjunctionMemberStrings))

\* A member encoded without the test that it is a single code point or a class token
EncodeNegatedMember_Unchecked(member) == encodePattern(member, FALSE)

\* The loop body of encodePattern_notAnyOf for one member
EncodeNegatedMember(member) ==
    IF ~isStringOrClassToken(member)
    THEN Throw("The pattern is not a single codepoint or class token and cannot be included in a negated character class.")
    ELSE LET single == IF isString(member)
                       THEN isSingleUnicodeCodepoint(member.text)
                       ELSE Return(TRUE)
         IN  IF ~single.ok THEN single
             ELSE IF ~single.val
             THEN Throw("The string pattern is not a single codepoint and cannot be included in a negated character class.")
             ELSE encodePattern(member, FALSE)

encodePattern_notAnyOf(pattern) ==
    LET members == pattern.members
    IN  IF Len(members) = 0 THEN Return(<<>>)
        ELSE LET encodedElements ==
                     Collect([i \in 1..Len(members) |-> EncodeNegatedMember(members[i])])
             IN  IF ~encodedElements.ok THEN encodedElements
                 ELSE Return(<<"[", "^">> \o Join(encodedElements.val, <<>>) \o <<"]">>)

encodePattern_possibly(pattern) ==
    LET contentString == encodePattern(pattern.content, TRUE)
    IN  IF ~contentString.ok THEN contentString
        ELSE IF contentString.val = <<>> THEN Return(<<>>)
        ELSE Return(QuantifiedString(pattern, contentString.val, <<"?">>))

encodePattern_zeroOrMore(pattern) ==
    LET contentString == encodePattern(pattern.content, TRUE)
    IN  IF ~contentString.ok THEN contentString
        ELSE IF contentString.val = <<>> THEN Return(<<>>)
        ELSE Return(QuantifiedString(pattern, contentString.val,
                                     <<"*">> \o greedySuffix(pattern)))

encodePattern_oneOrMore(pattern) ==
    LET contentString == encodePattern(pattern.content, TRUE)
    IN  IF ~contentString.ok THEN contentString
        ELSE IF contentString.val = <<>> THEN Return(<<>>)
        ELSE Return(QuantifiedString(pattern, contentString.val,
                                     <<"+">> \o greedySuffix(pattern)))

countString(minCount, maxCount) ==
    IF minCount = maxCount
    THEN <<"{">> \o NumberToDecimal(minCount) \o <<"}">>
    ELSE IF maxCount = Infinity
    THEN <<"{">> \o NumberToDecimal(minCount) \o <<",", "}">>
    ELSE <<"{">> \o NumberToDecimal(minCount) \o <<",">> \o NumberToDecimal(maxCount)
         \o <<"}">>

\* A repeated node encoded as the other quantifiers are: the content bare when
\* it is a string or a class token
encodePattern_repeated_BareAtom(pattern) ==
    LET contentString == encodePattern(pattern.content, TRUE)
    IN  IF ~contentString.ok THEN contentString
        ELSE IF contentString.val = <<>> THEN Return(<<>>)
        ELSE Return(QuantifiedString(pattern, contentString.val,
                                     countString(pattern.minCount, pattern.maxCount)
                                     \o greedySuffix(pattern)))

encodePattern_repeated(pattern) ==
    LET contentString == encodePattern(pattern.content, TRUE)
    IN  IF ~contentString.ok THEN contentString
        ELSE IF contentString.val = <<>> THEN Return(<<>>)
        ELSE Return(NonCapturingGroup(contentString.val)
                    \o countString(pattern.minCount, pattern.maxCount)
                    \o greedySuffix(pattern))

\* A lookaround written around its content also when the content is empty
Lookaround_AroundEmpty(pattern, prefix) ==
    LET contentString == encodePattern(pattern.content, TRUE)
    IN  IF ~contentString.ok THEN contentString
        ELSE Return(prefix \o contentString.val \o <<")">>)

\* The body shared by the four lookaround encoders
Lookaround(pattern, prefix) ==
    LET contentString == encodePattern(pattern.content, TRUE)
    IN  IF ~contentString.ok THEN contentString
        ELSE IF contentString.val = <<>> THEN Return(<<>>)
        ELSE Return(prefix \o contentString.val \o <<")">>)

encodePattern_precededBy(pattern) == Lookaround(pattern, <<"(", "?", "<", "=">>)

encodePattern_notPrecededBy(pattern) == Lookaround(pattern, <<"(", "?", "<", "!">>)

encodePattern_followedBy(pattern) == Lookaround(pattern, <<"(", "?", "=">>)

encodePattern_notFollowedBy(pattern) == Lookaround(pattern, <<"(", "?", "!">>)

\* if (pattern.name): a name that is undefined or the empty string is falsy
HasName(pattern) == isString(pattern.name) /\ Len(pattern.name.text) > 0

encodePattern_capture(pattern) ==
    LET contentString == encodePattern(pattern.content, TRUE)
    IN  IF ~contentString.ok THEN contentString
        ELSE IF HasName(pattern)
        THEN Return(<<"(", "?", "<">> \o pattern.name.text \o <<">">>
                    \o contentString.val \o <<")">>)
        ELSE Return(<<"(">> \o contentString.val \o <<")">>)

----------------------------------------------------------------------------
(* Detect if a pattern is optional *)

\* The two lookup tables of one call of isPatternOptional, and (for the
\* properties only) the lookups of SameAs nodes made so far: each with the
\* reference, the tables as they were, and what the lookup gave.
EmptyTables ==
    [captureGroupLookup |-> <<>>, namedCaptureGroupLookup |-> <<>>, lookups |-> <<>>]

\* What isOptional gives: a returned boolean or an exception, and the tables after
Optional(result, tables) ==
    [ok |-> result.ok, val |-> result.val, error |-> result.error, tables |-> tables]

\* captureGroupLookup[index] of the zero-based JavaScript array: the element
\* at position index + 1 of the sequence, or undefined
ArrayAt(array, index) ==
    IF index >= 0 /\ index + 1 <= Len(array)
    THEN [defined |-> TRUE, value |-> array[index + 1]]
    ELSE [defined |-> FALSE, value |-> FALSE]

\* namedCaptureGroupLookup.get(name)
MapGet(map, name) ==
    IF name \in DOMAIN map
    THEN [defined |-> TRUE, value |-> map[name]]
    ELSE [defined |-> FALSE, value |-> FALSE]

\* namedCaptureGroupLookup.set(name, value)
MapSet(map, name, value) ==
    [key \in (DOMAIN map) \cup {name} |-> IF key = name THEN value ELSE map[key]]

\* A reference that is not found taken for a capture that is not optional
LookupSameAs_NotFoundIsFalse(pattern, tables) ==
    LET nameOrIndex  == pattern.captureGroupNameOrIndex
        lookupResult == IF isNumber(nameOrIndex)
                        THEN ArrayAt(tables.captureGroupLookup, nameOrIndex.value)
                        ELSE MapGet(tables.namedCaptureGroupLookup, nameOrIndex.text)
    IN  Return(lookupResult.value)

\* The sameAs branch of isOptional
LookupSameAs(pattern, tables) ==
    LET nameOrIndex  == pattern.captureGroupNameOrIndex
        lookupResult == IF isNumber(nameOrIndex)
                        THEN ArrayAt(tables.captureGroupLookup, nameOrIndex.value)
                        ELSE MapGet(tables.namedCaptureGroupLookup, nameOrIndex.text)
    IN  IF ~lookupResult.defined
        THEN IF isNumber(nameOrIndex)
             THEN Throw("Couldn't resolve backreference to a capture group at index")
             ELSE Throw("Couldn't resolve backreference to a named capture group")
        ELSE Return(lookupResult.value)

RECURSIVE isOptional(_, _)
RECURSIVE AllOptional_EmptyIsNotOptional(_, _, _)

RECURSIVE AllOptional(_, _, _)

\* The loops with an array or an anyOf that holds nothing taken as not optional
AllOptional_EmptyIsNotOptional(patterns, i, tables) ==
    IF i > Len(patterns) THEN Optional(Return(Len(patterns) > 0), tables)
    ELSE LET element == isOptional(patterns[i], tables)
         IN  IF ~element.ok THEN element
             ELSE IF ~element.val THEN Optional(Return(FALSE), element.tables)
             ELSE AllOptional_EmptyIsNotOptional(patterns, i + 1, element.tables)

\* The loops over the elements of an array and over the members of an anyOf,
\* from position i on: false at the first element that is not optional.
AllOptional(patterns, i, tables) ==
    IF i > Len(patterns) THEN Optional(Return(TRUE), tables)
    ELSE LET element == isOptional(patterns[i], tables)
         IN  IF ~element.ok THEN element
             ELSE IF ~element.val THEN Optional(Return(FALSE), element.tables)
             ELSE AllOptional(patterns, i + 1, element.tables)

isOptional(pattern, tables) ==
    IF isString(pattern) THEN Optional(Return(FALSE), tables)
    ELSE IF isArray(pattern) THEN AllOptional(pattern.elements, 1, tables)
    ELSE IF pattern.type \in {"specialToken", "notAnyOf"}
    THEN Optional(Return(FALSE), tables)
    ELSE IF pattern.type \in {"possibly", "zeroOrMore"}
    THEN Optional(Return(TRUE), tables)
    ELSE IF pattern.type \in {"oneOrMore", "repeated", "precededBy", "notPrecededBy",
                              "followedBy", "notFollowedBy"}
    THEN isOptional(pattern.content, tables)
    ELSE IF pattern.type = "capture"
    THEN LET isGroupOptional == isOptional(pattern.content, tables)
         IN  IF ~isGroupOptional.ok THEN isGroupOptional
             ELSE LET pushed == Append(isGroupOptional.tables.captureGroupLookup,
                                       isGroupOptional.val)
                      named  == IF HasName(pattern)
                                THEN MapSet(isGroupOptional.tables.namedCaptureGroupLookup,
                                            pattern.name.text, isGroupOptional.val)
                                ELSE isGroupOptional.tables.namedCaptureGroupLookup
                  IN  Optional(Return(isGroupOptional.val),
                               [isGroupOptional.tables EXCEPT
                                   !.captureGroupLookup = pushed,
                                   !.namedCaptureGroupLookup = named])
    ELSE IF pattern.type = "anyOf" THEN AllOptional(pattern.members, 1, tables)
    ELSE IF pattern.type = "sameAs"
    THEN LET result == LookupSameAs(pattern, tables)
         IN  Optional(result,
                      [tables EXCEPT !.lookups = Append(@,
                          [reference |-> pattern.captureGroupNameOrIndex,
                           captureGroupLookup |-> tables.captureGroupLookup,
                           namedCaptureGroupLookup |-> tables.namedCaptureGroupLookup,
                           result |-> result])])
    ELSE Optional(Throw("Unrecognized pattern type"), tables)

\* The two tables as a call leaves them, without the record of its lookups
LeftTables(tables) ==
    [captureGroupLookup |-> tables.captureGroupLookup,
     namedCaptureGroupLookup |-> tables.namedCaptureGroupLookup]

\* The tables of a call that go on from those the call before it left
NewTables_Kept(previous) ==
    [captureGroupLookup |-> previous.captureGroupLookup,
     namedCaptureGroupLookup |-> previous.namedCaptureGroupLookup,
     lookups |-> <<>>]

\* const captureGroupLookup: boolean[] = [], namedCaptureGroupLookup = new Map():
\* the tables a call starts with, whatever the tables of the call before it
NewTables(previous) == EmptyTables

isPatternOptional(pattern) == isOptional(pattern, NewTables(EmptyTables))

----------------------------------------------------------------------------
(* Build options and buildRegExp *)

defaultBuildOptions ==
    [global |-> FALSE, hasIndices |-> TRUE, ignoreCase |-> FALSE, sticky |-> FALSE]

\* { ...defaultBuildOptions, ...buildOptions }: the keys of both, a key of
\* buildOptions taking the place of the default
SpreadOptions(defaults, buildOptions) ==
    [key \in (DOMAIN defaults) \cup (DOMAIN buildOptions) |->
        IF key \in DOMAIN buildOptions THEN buildOptions[key] ELSE defaults[key]]

\* if (flag) { flagsString += letter }
FlagLetter(flag, letter) == IF flag THEN <<letter>> ELSE <<>>

\* The flags with multiline read from the options
getRegExpFlagsForOptions_MultilineOption(options) ==
    FlagLetter(options.hasIndices, "d") \o FlagLetter(options.global, "g")
    \o FlagLetter(options.ignoreCase, "i")
    \o FlagLetter("multiline" \in DOMAIN options /\ options.multiline, "m")
    \o <<"s", "u">> \o FlagLetter(options.sticky, "y")

getRegExpFlagsForOptions(options) ==
    LET hasIndices  == options.hasIndices
        global      == options.global
        ignoreCase  == options.ignoreCase
        multiline   == FALSE
        dotAll      == TRUE
        unicode     == TRUE
        unicodeSets == FALSE
        sticky      == options.sticky
    IN  FlagLetter(hasIndices, "d") \o FlagLetter(global, "g")
        \o FlagLetter(ignoreCase, "i") \o FlagLetter(multiline, "m")
        \o FlagLetter(dotAll, "s") \o FlagLetter(unicode, "u")
        \o FlagLetter(unicodeSets, "v") \o FlagLetter(sticky, "y")

\* The source and the flags handed to the RegExp constructor, which is outside
\* the model; an exception of encodePattern leaves buildRegExp.
buildRegExp(pattern, buildOptions) ==
    LET options           == SpreadOptions(defaultBuildOptions, buildOptions)
        regExpString      == encodePattern(pattern, TRUE)
        regExpFlagsString == getRegExpFlagsForOptions(options)
    IN  IF ~regExpString.ok THEN regExpString
        ELSE Return([source |-> regExpString.val, flags |-> regExpFlagsString])

----------------------------------------------------------------------------
(* The inputs of the calls *)

MaxLiteralLength == 2

MaxMembers == 3

MaxElements == 3

MaxCount == 3

MaxHexLength == 3

\* The sequences over S of length at most n
SeqsUpTo(S, n) == UNION {[1..k -> S] : k \in 0..n}

\* The metacharacters of the regular expression syntax, a hyphen and a letter
LiteralAlphabet ==
    {".", "*", "+", "?", "^", "$", "{", "}", "(", ")", "|", "[", "]", "\\", "-", "a"}

Literals == {StringValue(text) : text \in SeqsUpTo(LiteralAlphabet, MaxLiteralLength)}

Lit_a == StringValue(<<"a">>)

Lit_b == StringValue(<<"b">>)

Lit_d == StringValue(<<"d">>)

Lit_dash == StringValue(<<"-">>)

Lit_backslash == StringValue(<<"\\">>)

Lit_cat == StringValue(<<"c", "a", "t">>)

Lit_empty == StringValue(<<>>)

Lit_astral == StringValue(<<"<U+1F600>">>)

Lit_HelloWorld ==
    StringValue(<<"H", "e", "l", "l", "o", " ", "w", "o", "r", "l", "d", ".">>)

Lit_HowAreYou ==
    StringValue(<<" ", "H", "o", "w", " ", "a", "r", "e", " ", "y", "o", "u", "?">>)

Range_dash_9 == charRange(<<"-">>, <<"9">>).val

Range_a_z == charRange(<<"a">>, <<"z">>).val

\* The members of the anyOf patterns: single code points, class tokens, and
\* patterns that are neither, some of which encode to the empty string
MemberPatterns ==
    {Lit_a, Lit_dash, Lit_backslash, Lit_cat, Lit_empty, Lit_astral, Range_dash_9,
     inputStart, ArrayValue(<<>>), possibly(Lit_a), zeroOrMore(ArrayValue(<<>>))}

AnyOfPatterns ==
    {anyOf(members) : members \in SeqsUpTo(MemberPatterns, MaxMembers)}
    \cup {anyOf(<<Lit_a, Lit_b, Lit_cat, Lit_d>>),
          anyOf(<<Lit_a, Lit_b, Lit_dash, Range_dash_9>>),
          anyOf(<<Lit_a, Lit_cat, Lit_empty, Lit_b>>)}

\* What possibly, zeroOrMore, oneOrMore and the other wrappers are applied to
ContentPatterns ==
    MemberPatterns
    \cup {Lit_HowAreYou, digit, Range_a_z, StringValue(<<"a", "a">>),
          StringValue(<<"?">>), ArrayValue(<<Lit_a>>), ArrayValue(<<Lit_a, Lit_cat>>),
          ArrayValue(<<Lit_empty>>)}
    \cup {anyOf(members) : members \in SeqsUpTo({Lit_a, Lit_cat, Lit_empty}, 2)}

QuantifiedPatterns ==
    UNION {{possibly(content), zeroOrMore(content), zeroOrMoreNonGreedy(content),
            oneOrMore(content), oneOrMoreNonGreedy(content)} :
           content \in ContentPatterns}

WrappedPatterns ==
    UNION {{precededBy(content), notPrecededBy(content), followedBy(content),
            notFollowedBy(content), capture(content), captureAs(<<"n">>, content),
            notAnyOf(<<content>>), possibly(possibly(content))} :
           content \in ContentPatterns}

CountValues == (0 - 1)..MaxCount

\* The first argument of repeated: a count, or a range of zero to three numbers
CountsAndRanges ==
    {NumberValue(count) : count \in CountValues}
    \cup {ArrayValue(<<>>)}
    \cup {ArrayValue(<<min>>) : min \in CountValues}
    \cup {ArrayValue(<<min, max>>) : min \in CountValues, max \in CountValues \cup {Infinity}}
    \cup {ArrayValue(<<0, 1, 2>>)}

Ranges == {range \in CountsAndRanges : isArray(range)}

RepeatedContents == {Lit_a, Lit_cat, Lit_empty, Range_a_z}

\* The nodes repeated and repeatedNonGreedy return
RepeatedPatterns ==
    {repeated(countOrRange, content).val :
        countOrRange \in {c \in CountsAndRanges : repeated(c, Lit_a).ok},
        content \in RepeatedContents}
    \cup {repeatedNonGreedy(content, range).val :
            range \in {r \in Ranges : repeatedNonGreedy(Lit_a, r).ok},
            content \in RepeatedContents}

\* The elements of the sequences given to isPatternOptional: optional and
\* non-optional patterns, captures of both, and backreferences
ElementPatterns ==
    {Lit_a, possibly(Lit_a),
     capture(possibly(Lit_a)), capture(ArrayValue(<<Lit_a>>)),
     captureAs(<<"n">>, possibly(Lit_a)), captureAs(<<"m">>, ArrayValue(<<Lit_a>>)),
     sameAs(NumberValue(1)).val, sameAs(NumberValue(2)).val,
     sameAs(StringValue(<<"n">>)).val, sameAs(StringValue(<<"m">>)).val}

SequencePatterns ==
    {ArrayValue(elements) : elements \in SeqsUpTo(ElementPatterns, MaxElements)}

NestedSequencePatterns ==
    {anyOf(elements) : elements \in SeqsUpTo(ElementPatterns, 2)}
    \cup {oneOrMore(ArrayValue(elements)) : elements \in SeqsUpTo(ElementPatterns, 2)}
    \cup {ArrayValue(<<capture(ArrayValue(elements)), sameAs(NumberValue(1)).val>>) :
            elements \in SeqsUpTo(ElementPatterns, 2)}

ExamplePatterns ==
    {ArrayValue(<<inputStart, Lit_HelloWorld, possibly(Lit_HowAreYou)>>)}

EncodeInputs ==
    Literals \cup MemberPatterns \cup AnyOfPatterns \cup QuantifiedPatterns
    \cup WrappedPatterns \cup RepeatedPatterns \cup SequencePatterns
    \cup ExamplePatterns

OptionalInputs ==
    SequencePatterns \cup NestedSequencePatterns \cup ContentPatterns
    \cup QuantifiedPatterns

HexAlphabet == {"0", "4", "1", "F", "z"}

CodepointInputs ==
    {NumberValue(n) : n \in {0 - 1, 0, 65, 5345, MaxCodepoint, MaxCodepoint + 1}}
    \cup {StringValue(text) : text \in SeqsUpTo(HexAlphabet, MaxHexLength)}
    \cup {StringValue(<<"0", "0", "0", "0", "0", "4", "1">>),
          StringValue(<<"1", "0", "f", "f", "f", "f">>),
          StringValue(<<"1", "0", "F", "F", "F", "F">>),
          StringValue(<<"1", "1", "0", "0", "0", "0">>),
          StringValue(<<"1", "1", "0", "0", "0", "0", "0">>),
          StringValue(<<"a", "{", "1", ",", " ", "6", "}">>),
          StringValue(<<"0", "x", "4", "1">>),
          StringValue(<<"-", "1">>),
          StringValue(<<" ", "4", "1">>)}

RangeChars == {<<"-">>, <<" ">>, <<"0">>, <<"9">>, <<"a">>, <<"z">>, <<"\\">>, <<>>}

\* Nodes of type `repeated` written directly, the unbounded ones among them
RepeatedNodes ==
    {RepeatedNode(minCount, maxCount, content, greedy) :
        minCount \in 0..MaxCount, maxCount \in (0..MaxCount) \cup {Infinity},
        content \in RepeatedContents \cup {digit, ArrayValue(<<>>)},
        greedy \in BOOLEAN}

\* The members of the notAnyOf patterns: single code points, class tokens, and
\* what is neither
NegatedMembers ==
    {Lit_a, Lit_dash, Lit_cat, Lit_empty, Lit_astral, Range_a_z, inputStart,
     StringValue(<<"]">>), ArrayValue(<<Lit_a>>), possibly(Lit_a)}

NotAnyOfPatterns ==
    {notAnyOf(members) : members \in SeqsUpTo(NegatedMembers, MaxMembers)}
    \cup {notAnyOf(<<Lit_a, Lit_dash, StringValue(<<"z">>)>>)}

\* Every backreference sameAs accepts by index, and some by name
SameAsPatterns ==
    {sameAs(NumberValue(n)).val : n \in 1..99}
    \cup {sameAs(StringValue(name)).val :
            name \in {<<"n">>, <<"a", "1">>, <<"s", "t", "u", "f", "f">>}}

\* Patterns without backreferences for isPatternOptional: the leaves, every
\* node type over them, and sequences and anyOf of them
OptionalLeaves ==
    {Lit_a, Lit_empty, Lit_cat, digit, Range_a_z, notAnyOf(<<Lit_a>>),
     ArrayValue(<<>>), anyOf(<<>>), possibly(Lit_a), zeroOrMore(Lit_a)}

NodesOver(contents) ==
    UNION {{possibly(content), zeroOrMore(content), zeroOrMoreNonGreedy(content),
            oneOrMore(content), oneOrMoreNonGreedy(content),
            RepeatedNode(0, 2, content, TRUE), RepeatedNode(1, Infinity, content, TRUE),
            RepeatedNode(0, 0, content, FALSE),
            precededBy(content), notPrecededBy(content), followedBy(content),
            notFollowedBy(content), capture(content), captureAs(<<"n">>, content)} :
           content \in contents}

OptionalElements ==
    {Lit_a, Lit_empty, digit, possibly(Lit_a), zeroOrMore(Lit_cat), oneOrMore(Lit_a),
     oneOrMore(possibly(Lit_a)), RepeatedNode(0, 2, Lit_a, TRUE),
     capture(possibly(Lit_a)), anyOf(<<Lit_a, possibly(Lit_b)>>), ArrayValue(<<>>)}

PlainCompositePatterns ==
    {ArrayValue(elements) : elements \in SeqsUpTo(OptionalElements, MaxElements)}
    \cup {anyOf(members) : members \in SeqsUpTo(OptionalElements, MaxMembers)}

PlainPatterns ==
    OptionalLeaves \cup NodesOver(OptionalLeaves) \cup PlainCompositePatterns
    \cup NodesOver({ArrayValue(elements) : elements \in SeqsUpTo(OptionalElements, 2)})
    \cup NodesOver({anyOf(members) : members \in SeqsUpTo(OptionalElements, 2)})

\* The arguments of codepointRange: integers and hexadecimal strings
CodepointRangeInputs ==
    {NumberValue(n) : n \in {0, 9, 10, 65, 255, 256, MaxCodepoint}}
    \cup {StringValue(text) : text \in SeqsUpTo({"0", "a", "F"}, MaxHexLength) \ {<<>>}}

\* The names of the conditions of matches, in the order the spec lists them
ConditionNames ==
    <<"except", "ifPrecededBy", "ifNotPrecededBy", "ifExtendsTo",
      "ifFollowedBy", "ifNotFollowedBy", "ifExtendsBackTo", "ifNotExtendsBackTo">>

ConditionNameSet == {ConditionNames[i] : i \in DOMAIN ConditionNames}

\* Every conditions object over two patterns, one of them the empty string;
\* Undefined stands for a name that is not given
ConditionMaps ==
    {MatchesConditions(slots) :
        slots \in [ConditionNameSet -> {Undefined, Lit_a, Lit_empty}]}

NoConditions == [name \in ConditionNameSet |-> Undefined]

\* The two objects of conditionsTestPattern, and others
ExampleConditions ==
    {MatchesConditions([NoConditions EXCEPT
         !["except"] = anyOf(<<Lit_cat, Lit_a>>),
         !["ifNotPrecededBy"] = Range_a_z,
         !["ifNotFollowedBy"] = anyOf(<<StringValue(<<"?">>), StringValue(<<"!">>)>>)]),
     MatchesConditions([NoConditions EXCEPT !["except"] = anyOf(<<Lit_cat, Lit_b>>)]),
     MatchesConditions([name \in ConditionNameSet |->
         StringValue(<<DecimalDigits[CHOOSE i \in 1..8 : ConditionNames[i] = name]>>)]),
     MatchesConditions([NoConditions EXCEPT !["ifExtendsBackTo"] = Lit_empty,
                                            !["ifExtendsTo"] = Lit_a]),
     MatchesConditions(NoConditions)}

MaxConditions == 2

ConditionsArrays ==
    {ArrayValue(conditionsArray) :
        conditionsArray \in SeqsUpTo(ExampleConditions, MaxConditions)}

MatchedPatterns == {Lit_a, oneOrMore(unicodeProperty(<<"L", "e", "t", "t", "e", "r">>))}

\* The keys of BuildOptions, and keys that are not among them
OptionNames == {"global", "hasIndices", "ignoreCase", "sticky"}

OtherOptionNames == {"multiline", "dotAll", "unicode", "unicodeSets"}

BuiltPatterns == {Lit_a, ArrayValue(<<inputStart, Lit_a>>), anyOf(<<Lit_empty>>)}

\* The patterns of the calls that follow one another
RepeatedCallInputs ==
    {ArrayValue(elements) :
        elements \in SeqsUpTo({capture(possibly(Lit_a)), capture(ArrayValue(<<Lit_a>>)),
                               captureAs(<<"n">>, possibly(Lit_a)),
                               sameAs(NumberValue(1)).val,
                               sameAs(StringValue(<<"n">>)).val}, 2)}
    \cup {anyOf(<<Lit_a, Lit_cat>>), possibly(Lit_cat)}

\* Captures as they can stand before a backreference: at the top of a
\* sequence, inside possibly and zeroOrMore, and inside other captures
CaptureOrderElements ==
    {capture(possibly(Lit_a)), possibly(capture(Lit_a)),
     zeroOrMore(capture(possibly(Lit_a))), capture(capture(possibly(Lit_a))),
     capture(possibly(capture(Lit_a))), possibly(Lit_a)}

\* Sequences of them that end with one backreference
CaptureOrderPatterns ==
    {ArrayValue(elements \o <<reference>>) :
        elements \in SeqsUpTo(CaptureOrderElements, 2),
        reference \in {sameAs(NumberValue(1)).val, sameAs(NumberValue(2)).val,
                       sameAs(StringValue(<<"n">>)).val}}
    \cup {oneOrMore(ArrayValue(<<element, sameAs(NumberValue(1)).val>>)) :
            element \in CaptureOrderElements}

----------------------------------------------------------------------------
(* The calls *)

NoCall == [fn |-> "none"]

Init ==
    /\ pc = "idle"
    /\ call = NoCall
    /\ ret = Throw("no call")
    /\ lookupTables = LeftTables(EmptyTables)
    /\ earlierTables = LeftTables(EmptyTables)

EncodePatternOn(patterns) ==
    /\ pc = "idle"
    /\ \E pattern \in patterns :
          /\ call' = [fn |-> "encodePattern", pattern |-> pattern]
          /\ ret' = encodePattern(pattern, TRUE)
    /\ pc' = "done"
    /\ UNCHANGED <<lookupTables, earlierTables>>

EncodePattern ==
    EncodePatternOn(EncodeInputs \cup RepeatedNodes \cup NotAnyOfPatterns
                    \cup SameAsPatterns)

\* Every call of isPatternOptional starts with tables of its own, whatever the
\* call before it left
IsPatternOptionalOn(patterns) ==
    /\ pc = "idle"
    /\ \E pattern \in patterns :
          LET result == isOptional(pattern, NewTables(lookupTables))
          IN  /\ call' = [fn |-> "isPatternOptional", pattern |-> pattern]
              /\ ret' = result
              /\ lookupTables' = LeftTables(result.tables)
              /\ earlierTables' = lookupTables
    /\ pc' = "done"

IsPatternOptional ==
    IsPatternOptionalOn(OptionalInputs \cup PlainPatterns \cup CaptureOrderPatterns)

Repeated ==
    /\ pc = "idle"
    /\ \E countOrRange \in CountsAndRanges, pattern \in RepeatedContents :
          /\ call' = [fn |-> "repeated", countOrRange |-> countOrRange,
                      pattern |-> pattern]
          /\ ret' = repeated(countOrRange, pattern)
    /\ pc' = "done"
    /\ UNCHANGED <<lookupTables, earlierTables>>

RepeatedNonGreedy ==
    /\ pc = "idle"
    /\ \E range \in Ranges, pattern \in RepeatedContents :
          /\ call' = [fn |-> "repeatedNonGreedy", countOrRange |-> range,
                      pattern |-> pattern]
          /\ ret' = repeatedNonGreedy(pattern, range)
    /\ pc' = "done"
    /\ UNCHANGED <<lookupTables, earlierTables>>

Codepoint ==
    /\ pc = "idle"
    /\ \E unicodeCodepoint \in CodepointInputs :
          /\ call' = [fn |-> "codepoint", unicodeCodepoint |-> unicodeCodepoint]
          /\ ret' = codepoint(unicodeCodepoint)
    /\ pc' = "done"
    /\ UNCHANGED <<lookupTables, earlierTables>>

CharRange ==
    /\ pc = "idle"
    /\ \E startChar \in RangeChars, endChar \in RangeChars :
          /\ call' = [fn |-> "charRange", startChar |-> startChar, endChar |-> endChar]
          /\ ret' = charRange(startChar, endChar)
    /\ pc' = "done"
    /\ UNCHANGED <<lookupTables, earlierTables>>

CodepointRange ==
    /\ pc = "idle"
    /\ \E start \in CodepointRangeInputs, end \in CodepointRangeInputs :
          /\ isNumber(start) = isNumber(end)
          /\ call' = [fn |-> "codepointRange", start |-> start, end |-> end]
          /\ ret' = codepointRange(start, end)
    /\ pc' = "done"
    /\ UNCHANGED <<lookupTables, earlierTables>>

Matches ==
    /\ pc = "idle"
    /\ \E pattern \in MatchedPatterns,
          conditionsOrConditionsArray \in ConditionMaps \cup ConditionsArrays :
          /\ call' = [fn |-> "matches", pattern |-> pattern,
                      conditionsOrConditionsArray |-> conditionsOrConditionsArray]
          /\ ret' = matches(pattern, conditionsOrConditionsArray)
    /\ pc' = "done"
    /\ UNCHANGED <<lookupTables, earlierTables>>

\* buildOptions gives some of the options, and may hold keys that are no options
BuildRegExp ==
    /\ pc = "idle"
    /\ \E pattern \in BuiltPatterns, names \in SUBSET (OptionNames \cup OtherOptionNames) :
          \E buildOptions \in [names -> BOOLEAN] :
             /\ call' = [fn |-> "buildRegExp", pattern |-> pattern,
                         buildOptions |-> buildOptions]
             /\ ret' = buildRegExp(pattern, buildOptions)
    /\ pc' = "done"
    /\ UNCHANGED <<lookupTables, earlierTables>>

\* The caller goes on to its next call
Finish ==
    /\ pc = "done"
    /\ pc' = "idle"
    /\ UNCHANGED <<call, ret, lookupTables, earlierTables>>

Next ==
    \/ Codepoint
    \/ CharRange
    \/ CodepointRange
    \/ Repeated
    \/ RepeatedNonGreedy
    \/ Matches
    \/ BuildRegExp
    \/ IsPatternOptional
    \/ EncodePattern

Spec == Init /\ [][Next]_vars

\* Calls of the encoder and of the analyser that follow one another
NextCalls ==
    \/ IsPatternOptionalOn(RepeatedCallInputs)
    \/ EncodePatternOn(RepeatedCallInputs)
    \/ Finish

SpecCalls == Init /\ [][NextCalls]_vars

Done(fn) == pc = "done" /\ call.fn = fn

----------------------------------------------------------------------------
(* Properties of the encoder on literals and on anyOf *)

\* The metacharacters the specification lists for literals
MetaCharacters ==
    {".", "*", "+", "?", "^", "$", "{", "}", "(", ")", "|", "[", "]", "\\"}

\* How many of the first i characters of str are metacharacters
MetaCount(str, i) == Cardinality({j \in 1..i : str[j] \in MetaCharacters})

\* C1: the encoding of a string literal is the literal with exactly one
\* backslash inserted before each metacharacter and every other character
\* (a hyphen too) copied in order: character i of the literal stands at
\* position i + (the metacharacters among the first i), a backslash stands
\* right before it when it is a metacharacter, and nothing else is added.  A
\* literal without metacharacters encodes to itself.
C1_LiteralEscaped ==
    (Done("encodePattern") /\ isString(call.pattern)) =>
        LET str == call.pattern.text
            out == ret.val
        IN  /\ ret.ok
            /\ Len(out) = Len(str) + MetaCount(str, Len(str))
            /\ \A i \in 1..Len(str) :
                  LET k == i + MetaCount(str, i)
                  IN  /\ out[k] = str[i]
                      /\ (str[i] \in MetaCharacters => out[k - 1] = "\\")
            /\ (MetaCount(str, Len(str)) = 0 => out = str)

C1_Witness ==
    /\ Done("encodePattern")
    /\ call.pattern = StringValue(<<"[", "-">>)
    /\ Str(ret.val) = "\\[-"

\* A member that is a single literal code point or a class token
IsAtomicMember(member) ==
    \/ isString(member) /\ Len(member.text) = 1
    \/ member.type = "specialToken"

\* What an atomic member contributes to its character class
ClassPiece(member) ==
    LET encoded == encodePattern(member, FALSE).val
    IN  IF encoded = <<"-">> THEN <<"\\", "-">> ELSE encoded

\* The disjunction the claim describes, from member i on: a `[` before the
\* first member of an atomic run and a `]` after its last, every other member
\* encoded as its own branch, and a `|` between two pieces.
RECURSIVE DisjunctionByRuns(_, _)
DisjunctionByRuns(members, i) ==
    IF i > Len(members) THEN <<>>
    ELSE LET member == members[i]
             atomic == IsAtomicMember(member)
             opens  == atomic /\ (i = 1 \/ ~IsAtomicMember(members[i - 1]))
             closes == atomic /\ (i = Len(members) \/ ~IsAtomicMember(members[i + 1]))
             bar    == i < Len(members) /\ ~(atomic /\ IsAtomicMember(members[i + 1]))
         IN  (IF opens THEN <<"[">> ELSE <<>>)
             \o (IF atomic THEN ClassPiece(member) ELSE encodePattern(member, TRUE).val)
             \o (IF closes THEN <<"]">> ELSE <<>>)
             \o (IF bar THEN <<"|">> ELSE <<>>)
             \o DisjunctionByRuns(members, i + 1)

EncodesNonEmpty(pattern) ==
    encodePattern(pattern, TRUE).ok /\ encodePattern(pattern, TRUE).val # <<>>

EncodesEmpty(pattern) == encodePattern(pattern, TRUE) = Return(<<>>)

\* C2 as claimed: for every member list the encoding of an anyOf is `(?:`,
\* one class per maximal run of atomic members and one branch per other
\* member, in member order and joined by `|`, then `)`.
C2_AsClaimed ==
    (Done("encodePattern") /\ call.pattern.type = "anyOf") =>
        /\ ret.ok
        /\ ret.val = <<"(", "?", ":">> \o DisjunctionByRuns(call.pattern.members, 1)
                     \o <<")">>

\* C2 as amended: the same, for the member lists that have a member and whose
\* members all encode to a non-empty string.
C2_AnyOfByRuns ==
    (/\ Done("encodePattern")
     /\ call.pattern.type = "anyOf"
     /\ Len(call.pattern.members) > 0
     /\ \A i \in 1..Len(call.pattern.members) :
           EncodesNonEmpty(call.pattern.members[i])) =>
        /\ ret.ok
        /\ ret.val = <<"(", "?", ":">> \o DisjunctionByRuns(call.pattern.members, 1)
                     \o <<")">>

C2_Witness ==
    /\ Done("encodePattern")
    /\ call.pattern = anyOf(<<Lit_a, Lit_b, Lit_cat, Lit_d>>)
    /\ Str(ret.val) = "(?:[ab]|cat|[d])"

----------------------------------------------------------------------------
(* Properties of the quantifiers *)

\* `?`, `*` or `+`, followed by `?` when the node is not greedy
QuantifierSuffix(pattern) ==
    CASE pattern.type = "possibly" -> <<"?">>
      [] pattern.type = "zeroOrMore" -> <<"*">> \o greedySuffix(pattern)
      [] pattern.type = "oneOrMore" -> <<"+">> \o greedySuffix(pattern)

\* C3 as claimed: for possibly, zeroOrMore and oneOrMore whose content encodes
\* to a non-empty string, the suffix follows the content directly when the
\* content is a single literal code point or a class token, and follows the
\* content in a non-capturing group for every other content; the encoding of
\* [inputStart, 'Hello world.', possibly(' How are you?')] is
\* ^Hello world\.(?: How are you\?)?
C3_AsClaimed ==
    /\ (/\ Done("encodePattern")
        /\ call.pattern.type \in {"possibly", "zeroOrMore", "oneOrMore"}
        /\ EncodesNonEmpty(call.pattern.content)) =>
           LET contentString == encodePattern(call.pattern.content, TRUE).val
           IN  /\ ret.ok
               /\ ret.val = IF IsAtomicMember(call.pattern.content)
                            THEN contentString \o QuantifierSuffix(call.pattern)
                            ELSE <<"(", "?", ":">> \o contentString \o <<")">>
                                 \o QuantifierSuffix(call.pattern)
    /\ (/\ Done("encodePattern")
        /\ call.pattern = ArrayValue(<<inputStart, Lit_HelloWorld,
                                       possibly(Lit_HowAreYou)>>)) =>
           Str(ret.val) = "^Hello world\\.(?: How are you\\?)?"

\* The one-element range [min] given to repeated or repeatedNonGreedy
IsMinOnlyRange ==
    /\ pc = "done"
    /\ call.fn \in {"repeated", "repeatedNonGreedy"}
    /\ isArray(call.countOrRange)
    /\ Len(call.countOrRange.elements) = 1

\* C4 as claimed: repeated([min], p) and repeatedNonGreedy(p, [min]) return a
\* node whose maxCount is unbounded, and the node encodes to (?:P){min,},
\* followed by `?` for repeatedNonGreedy, where P is the encoding of p.
C4_AsClaimed ==
    IsMinOnlyRange =>
        /\ ret.ok
        /\ ret.val.maxCount = Infinity
        /\ EncodesNonEmpty(call.pattern) =>
              encodePattern(ret.val, TRUE).val =
                  <<"(", "?", ":">> \o encodePattern(call.pattern, TRUE).val
                  \o <<")", "{">> \o NumberToDecimal(call.countOrRange.elements[1])
                  \o <<",", "}">>
                  \o (IF call.fn = "repeatedNonGreedy" THEN <<"?">> ELSE <<>>)

\* The counts a call of repeated or repeatedNonGreedy asks for
RequestedMin ==
    IF isNumber(call.countOrRange) THEN call.countOrRange.value
    ELSE call.countOrRange.elements[1]

RequestedMax ==
    IF isNumber(call.countOrRange) THEN call.countOrRange.value
    ELSE RangeMax(call.countOrRange)

\* C5 as claimed: a node returned by repeated or repeatedNonGreedy has
\* 0 <= minCount <= maxCount (Infinity is above every count), and a call with
\* a negative count or with min above max raises an error.
C5_AsClaimed ==
    (pc = "done" /\ call.fn \in {"repeated", "repeatedNonGreedy"}) =>
        /\ ret.ok => (0 <= ret.val.minCount /\ ret.val.minCount <= ret.val.maxCount)
        /\ (/\ isNumber(call.countOrRange) \/ Len(call.countOrRange.elements) \in {1, 2}
            /\ (RequestedMin < 0 \/ RequestedMax < 0 \/ RequestedMin > RequestedMax))
           => ~ret.ok

----------------------------------------------------------------------------
(* Properties of the optionality analyser *)

\* Whether the capture a reference names had been recorded when the lookup
\* was made: the k-th capture for the number k, a capture of that name for a name.
Recorded(lookup) ==
    IF isNumber(lookup.reference)
    THEN Len(lookup.captureGroupLookup) >= lookup.reference.value
    ELSE lookup.reference.text \in DOMAIN lookup.namedCaptureGroupLookup

\* The optionality recorded for the capture a reference names
RecordedOptionality(lookup) ==
    IF isNumber(lookup.reference)
    THEN lookup.captureGroupLookup[lookup.reference.value]
    ELSE lookup.namedCaptureGroupLookup[lookup.reference.text]

IsResolutionError(error) ==
    error \in {"Couldn't resolve backreference to a capture group at index",
               "Couldn't resolve backreference to a named capture group"}

\* C6 as claimed: a SameAs evaluated after the capture it names was recorded
\* (the k-th capture in encounter order for sameAs(k), the capture of that
\* name for a named one) gives that capture's optionality; for
\* [capture(possibly('a')), sameAs(1)] the call returns true without error.
C6_AsClaimed ==
    Done("isPatternOptional") =>
        /\ \A i \in 1..Len(ret.tables.lookups) :
              LET lookup == ret.tables.lookups[i]
              IN  Recorded(lookup) =>
                     /\ lookup.result.ok
                     /\ lookup.result.val = RecordedOptionality(lookup)
        /\ call.pattern = ArrayValue(<<capture(possibly(Lit_a)),
                                       sameAs(NumberValue(1)).val>>)
              => (ret.ok /\ ret.val = TRUE)

\* The captures and backreferences of a pattern in left-to-right order, a
\* capture standing where it closes
RECURSIVE References(_)
RECURSIVE ReferencesOfAll(_)
ReferencesOfAll(patterns) ==
    IF Len(patterns) = 0 THEN <<>>
    ELSE References(Head(patterns)) \o ReferencesOfAll(Tail(patterns))

References(pattern) ==
    IF isString(pattern) \/ pattern.type \in {"specialToken", "notAnyOf"} THEN <<>>
    ELSE IF isArray(pattern) THEN ReferencesOfAll(pattern.elements)
    ELSE IF pattern.type = "anyOf" THEN ReferencesOfAll(pattern.members)
    ELSE IF pattern.type = "sameAs"
    THEN <<[kind |-> "sameAs", name |-> pattern.captureGroupNameOrIndex]>>
    ELSE IF pattern.type = "capture"
    THEN References(pattern.content) \o <<[kind |-> "capture", name |-> pattern.name]>>
    ELSE References(pattern.content)

\* The pattern holds a SameAs whose capture does not stand before it
HasUnrecordedSameAs(pattern) ==
    LET refs == References(pattern)
    IN  \E j \in 1..Len(refs) :
           /\ refs[j].kind = "sameAs"
           /\ LET before == {i \in 1..(j - 1) : refs[i].kind = "capture"}
              IN  IF isNumber(refs[j].name)
                  THEN Cardinality(before) < refs[j].name.value
                  ELSE \A i \in before : refs[i].name # refs[j].name

\* C7 as claimed: isPatternOptional raises a resolution error for every
\* pattern that holds a SameAs whose capture has not been recorded before it
\* in left-to-right order, whatever precedes the SameAs.
C7_AsClaimed ==
    (Done("isPatternOptional") /\ HasUnrecordedSameAs(call.pattern)) =>
        (~ret.ok /\ IsResolutionError(ret.error))

\* Element j of a sequence is a SameAs and the elements before it are
\* possibly nodes: optional, and nothing in them is recorded
ReachesSameAsFirst(elements, j) ==
    /\ j \in 1..Len(elements)
    /\ elements[j].type = "sameAs"
    /\ \A i \in 1..(j - 1) : elements[i].type = "possibly"

\* C7 as amended: isPatternOptional raises a resolution error whenever its
\* traversal reaches a SameAs whose capture has not been recorded by then (the
\* lookup fails, it is the last one, and the call fails with it); so it does
\* for a sequence whose SameAs follows only possibly nodes.  A sequence
\* stops at its first element that is not optional: when the first element is
\* a string or a class token no SameAs is looked up and false is returned.
C7_UnrecordedReachedRaises ==
    Done("isPatternOptional") =>
        /\ \A i \in 1..Len(ret.tables.lookups) :
              LET lookup == ret.tables.lookups[i]
              IN  ~Recorded(lookup) =>
                     /\ ~lookup.result.ok
                     /\ i = Len(ret.tables.lookups)
                     /\ ~ret.ok
                     /\ IsResolutionError(ret.error)
        /\ (/\ isArray(call.pattern)
            /\ \E j \in 1..Len(call.pattern.elements) :
                  ReachesSameAsFirst(call.pattern.elements, j))
              => (~ret.ok /\ IsResolutionError(ret.error))
        /\ (/\ isArray(call.pattern)
            /\ Len(call.pattern.elements) > 0
            /\ isStringOrClassToken(call.pattern.elements[1]))
              => (ret.ok /\ ret.val = FALSE /\ ret.tables.lookups = <<>>)

C7_Witness ==
    /\ Done("isPatternOptional")
    /\ call.pattern = ArrayValue(<<possibly(Lit_a), sameAs(NumberValue(1)).val,
                                   capture(possibly(Lit_a))>>)
    /\ ~ret.ok
    /\ IsResolutionError(ret.error)
    /\ Len(ret.tables.lookups) = 1

----------------------------------------------------------------------------
(* Properties of codepoint *)

\* One to six hexadecimal digits
IsHexCode(str) ==
    /\ Len(str) \in 1..6
    /\ \A i \in 1..Len(str) : IsHexDigit(str[i])

\* C8 as claimed: codepoint(x) raises an error whenever the value is outside
\* [0, 0x10FFFF] and whenever x is a string that is not made of 1 to 6
\* hexadecimal digits; otherwise it returns a class token whose rawRegExp is
\* \u{hex}.
C8_AsClaimed ==
    Done("codepoint") =>
        LET x == call.unicodeCodepoint
            valid == IF isNumber(x)
                     THEN x.value \in 0..MaxCodepoint
                     ELSE IsHexCode(x.text) /\ HexPrefixValue(x.text, 0) <= MaxCodepoint
            hex ==   IF isNumber(x)
                     THEN NumberToString(x.value, HexDigitsLower)
                     ELSE toLowerCase(x.text)
        IN  IF valid
            THEN /\ ret.ok
                 /\ ret.val = SpecialToken("codepoint",
                                           <<"\\", "u", "{">> \o hex \o <<"}">>)
            ELSE ~ret.ok

----------------------------------------------------------------------------
(* Properties of anyOf: empty members, hyphens *)

\* C9 as claimed: an anyOf without members, or whose members all encode to
\* the empty string, encodes to the empty string; and the members that encode
\* to the empty string are dropped, so that the anyOf encodes as the anyOf of
\* its other members does.
C9_AsClaimed ==
    (Done("encodePattern") /\ call.pattern.type = "anyOf") =>
        LET members == call.pattern.members
        IN  /\ (\A i \in 1..Len(members) : EncodesEmpty(members[i]))
                  => ret = Return(<<>>)
            /\ ret = encodePattern(
                         anyOf(SelectSeq(members, LAMBDA m : ~EncodesEmpty(m))), TRUE)

\* Whether the character at position i of str follows an escaping backslash
RECURSIVE IsEscaped(_, _)
IsEscaped(str, i) == i > 1 /\ str[i - 1] = "\\" /\ ~IsEscaped(str, i - 1)

\* The positions of str that hold char unescaped
Unescaped(str, char) == {i \in 1..Len(str) : str[i] = char /\ ~IsEscaped(str, i)}

IsRangeToken(pattern) ==
    pattern.type = "specialToken" /\ pattern.name \in {"charRange", "codepointRange"}

\* The members that are range tokens
RangeMembers(members) == {i \in 1..Len(members) : IsRangeToken(members[i])}

\* What a member that is a single code point or a class token stands for in
\* a character class: the hyphen escaped, a literal escaped as literals are,
\* a class token as it is
ClassMember(member) ==
    IF member = StringValue(<<"-">>) THEN <<"\\", "-">>
    ELSE IF isString(member) THEN encodePattern(member, TRUE).val
    ELSE member.rawRegExp

----------------------------------------------------------------------------
(* Properties of matches *)

\* The assertion the spec gives for a condition name
AssertionOf(name, pattern) ==
    CASE name = "except" -> notFollowedBy(pattern)
      [] name = "ifPrecededBy" -> precededBy(pattern)
      [] name = "ifNotPrecededBy" -> notPrecededBy(pattern)
      [] name = "ifExtendsTo" -> followedBy(pattern)
      [] name = "ifFollowedBy" -> followedBy(pattern)
      [] name = "ifNotFollowedBy" -> notFollowedBy(pattern)
      [] name = "ifExtendsBackTo" -> precededBy(pattern)
      [] name = "ifNotExtendsBackTo" -> notPrecededBy(pattern)

BeforeNames == SubSeq(ConditionNames, 1, 4)

AfterNames == SubSeq(ConditionNames, 5, 8)

IsGiven(conditions, name) == conditions.slots[name].type # "undefined"

IsGivenNonEmpty(conditions, name) ==
    /\ IsGiven(conditions, name)
    /\ conditions.slots[name] # Lit_empty

\* The assertions of the names of `names` that one conditions object gives, in
\* the order of `names`; with emptyToo, also of the names given the empty string
AssertionsOfOne(conditions, names, emptyToo) ==
    LET given == SelectSeq(names, LAMBDA name :
                     IF emptyToo THEN IsGiven(conditions, name)
                     ELSE IsGivenNonEmpty(conditions, name))
    IN  [i \in 1..Len(given) |-> AssertionOf(given[i], conditions.slots[given[i]])]

\* The same over the conditions objects of an array, one after the other
AssertionsOfAll(conditionsArray, names, emptyToo) ==
    Flatten([i \in 1..Len(conditionsArray) |->
                AssertionsOfOne(conditionsArray[i], names, emptyToo)])

CalledConditionsArray ==
    IF isArray(call.conditionsOrConditionsArray)
    THEN call.conditionsOrConditionsArray.elements
    ELSE <<call.conditionsOrConditionsArray>>

MatchesResultIs(emptyToo) ==
    /\ ret.ok
    /\ ret.val = ArrayValue(AssertionsOfAll(CalledConditionsArray, BeforeNames, emptyToo)
                            \o <<call.pattern>>
                            \o AssertionsOfAll(CalledConditionsArray, AfterNames, emptyToo))

\* C11 as stated: matches returns the assertions of every given condition, the
\* before-names in their listed order, then the pattern, then the after-names
\* in their listed order, the conditions objects of an array one after the other.
C11_AsClaimed == Done("matches") => MatchesResultIs(TRUE)

\* C11: matches returns before ++ [pattern] ++ after, where before and after
\* hold, per conditions object in array order and per name in the listed
\* order, the assertion of every name that is given a pattern other than the
\* empty string; a name given the empty string adds no assertion.
C11_MatchesNonEmptyConditions == Done("matches") => MatchesResultIs(FALSE)

\* C11 witness: a call with two conditions objects that returned the three
\* assertions of the first around the pattern and the one of the second.
C11_Witness ==
    /\ Done("matches")
    /\ isArray(call.conditionsOrConditionsArray)
    /\ Len(call.conditionsOrConditionsArray.elements) = 2
    /\ ret.ok
    /\ Len(ret.val.elements) = 5
    /\ ret.val.elements[1].type = "notFollowedBy"
    /\ ret.val.elements[2].type = "notPrecededBy"
    /\ ret.val.elements[3].type = "notFollowedBy"
    /\ ret.val.elements[4] = call.pattern
    /\ ret.val.elements[5].type = "notFollowedBy"

----------------------------------------------------------------------------
(* Properties of the encoder on notAnyOf *)

\* The encoding of a valid member inside the class: the escaped code point, or
\* the fragment of the class token without brackets of its own
UnwrappedMember(member) ==
    IF isString(member) THEN escapeStringForRegExp(member.text) ELSE member.rawRegExp

NegatedClass(members) ==
    <<"[", "^">> \o Join([i \in 1..Len(members) |-> UnwrappedMember(members[i])], <<>>)
    \o <<"]">>

NotAnyOfAsClaimed(members) ==
    IF \E i \in 1..Len(members) : ~IsAtomicMember(members[i])
    THEN ~ret.ok
    ELSE ret.ok /\ ret.val = NegatedClass(members)

IsEncodeOf(type) == Done("encodePattern") /\ call.pattern.type = type

\* C12 as stated: encodePattern of a notAnyOf raises when some member is no
\* single code point and no class token, and gives `[^` members `]` otherwise.
C12_AsClaimed == IsEncodeOf("notAnyOf") => NotAnyOfAsClaimed(call.pattern.members)

\* C12: encodePattern of a notAnyOf with at least one member raises when some
\* member is no single-code-point literal and no class token, and otherwise
\* gives `[^`, the unwrapped encodings of the members in order, and `]`.
C12_NotAnyOfWithMembers ==
    IsEncodeOf("notAnyOf") /\ Len(call.pattern.members) > 0
        => NotAnyOfAsClaimed(call.pattern.members)

\* C12 witness: notAnyOf('a', charRange('a', 'z'), ']') encoded to `[^aa-z\]]`,
\* the range without brackets of its own.
C12_Witness ==
    /\ IsEncodeOf("notAnyOf")
    /\ call.pattern.members = <<Lit_a, Range_a_z, StringValue(<<"]">>)>>
    /\ ret.ok
    /\ Str(ret.val) = "[^aa-z\\]]"

\* C12 witness of the error: notAnyOf('a', 'cat') raised.
C12_WitnessError ==
    /\ IsEncodeOf("notAnyOf")
    /\ call.pattern.members = <<Lit_a, Lit_cat>>
    /\ ~ret.ok

----------------------------------------------------------------------------
(* Properties of the encoder on repeated *)

\* The count suffix the claim gives for a repeated node
CountSuffix(pattern) ==
    IF pattern.minCount = pattern.maxCount
    THEN "{" \o Str(NumberToDecimal(pattern.minCount)) \o "}"
    ELSE IF pattern.maxCount = Infinity
    THEN "{" \o Str(NumberToDecimal(pattern.minCount)) \o ",}"
    ELSE "{" \o Str(NumberToDecimal(pattern.minCount)) \o ","
         \o Str(NumberToDecimal(pattern.maxCount)) \o "}"

\* C13: a repeated node whose content encodes to a non-empty string C encodes
\* to `(?:C)`, also when the content is one code point or a class token, then
\* `{n}`, `{min,}` or `{min,max}`, then `?` exactly when the node is not greedy.
C13_RepeatedAlwaysGrouped ==
    IsEncodeOf("repeated") /\ EncodesNonEmpty(call.pattern.content)
        => /\ ret.ok
           /\ Str(ret.val) =
                 "(?:" \o Str(encodePattern(call.pattern.content, TRUE).val) \o ")"
                 \o CountSuffix(call.pattern)
                 \o (IF call.pattern.greedy THEN "" ELSE "?")

\* C13 witness: the unbounded non-greedy node over the single code point 'a'
\* encoded to `(?:a){2,}?`.
C13_Witness ==
    /\ IsEncodeOf("repeated")
    /\ call.pattern = RepeatedNode(2, Infinity, Lit_a, FALSE)
    /\ ret.ok
    /\ Str(ret.val) = "(?:a){2,}?"

----------------------------------------------------------------------------
(* Properties of isPatternOptional on patterns without backreferences *)

IsOptionalCall == Done("isPatternOptional")

\* A pattern built from literals, sequences, possibly, zeroOrMore, oneOrMore,
\* repeated and anyOf only
RECURSIVE IsPlainPattern(_)
IsPlainPattern(pattern) ==
    IF isString(pattern) THEN TRUE
    ELSE IF isArray(pattern)
    THEN \A i \in 1..Len(pattern.elements) : IsPlainPattern(pattern.elements[i])
    ELSE IF pattern.type \in {"possibly", "zeroOrMore", "oneOrMore", "repeated"}
    THEN IsPlainPattern(pattern.content)
    ELSE IF pattern.type = "anyOf"
    THEN \A i \in 1..Len(pattern.members) : IsPlainPattern(pattern.members[i])
    ELSE FALSE

\* Whether a plain pattern matches the empty string: the empty literal does, a
\* sequence when all its elements do, possibly and zeroOrMore always, oneOrMore
\* when its content does, repeated when its content does or no repetition is
\* required, and anyOf when one of its members does (or it has none).
RECURSIVE AcceptsEmptyString(_)
AcceptsEmptyString(pattern) ==
    IF isString(pattern) THEN Len(pattern.text) = 0
    ELSE IF isArray(pattern)
    THEN \A i \in 1..Len(pattern.elements) : AcceptsEmptyString(pattern.elements[i])
    ELSE IF pattern.type \in {"possibly", "zeroOrMore"} THEN TRUE
    ELSE IF pattern.type = "oneOrMore" THEN AcceptsEmptyString(pattern.content)
    ELSE IF pattern.type = "repeated"
    THEN pattern.minCount = 0 \/ AcceptsEmptyString(pattern.content)
    ELSE \/ Len(pattern.members) = 0
         \/ \E i \in 1..Len(pattern.members) : AcceptsEmptyString(pattern.members[i])

\* C14 as stated: on a plain pattern isPatternOptional returns true exactly
\* when the pattern matches the empty string.
C14_AsClaimed ==
    IsOptionalCall /\ IsPlainPattern(call.pattern)
        => ret.ok /\ ret.val = AcceptsEmptyString(call.pattern)

HasNoSameAs(pattern) ==
    \A i \in 1..Len(References(pattern)) : References(pattern)[i].kind # "sameAs"

\* The optionality the rules of the spec give to a pattern without SameAs
RECURSIVE OptionalByRules(_)
OptionalByRules(pattern) ==
    IF isString(pattern) THEN FALSE
    ELSE IF isArray(pattern)
    THEN \A i \in 1..Len(pattern.elements) : OptionalByRules(pattern.elements[i])
    ELSE CASE pattern.type \in {"specialToken", "notAnyOf"} -> FALSE
           [] pattern.type \in {"possibly", "zeroOrMore"} -> TRUE
           [] pattern.type \in {"oneOrMore", "repeated", "capture", "precededBy",
                                "notPrecededBy", "followedBy", "notFollowedBy"} ->
                  OptionalByRules(pattern.content)
           [] pattern.type = "anyOf" ->
                  \A i \in 1..Len(pattern.members) : OptionalByRules(pattern.members[i])

\* C15: on a pattern without SameAs isPatternOptional returns what the rules
\* give: false for a string, a class token and a notAnyOf; for a sequence and
\* an anyOf, whether every element or member is optional; true for possibly
\* and zeroOrMore; for oneOrMore, repeated, a lookaround and a capture, the
\* optionality of the content.
C15_OptionalityRules ==
    IsOptionalCall /\ HasNoSameAs(call.pattern)
        => ret.ok /\ ret.val = OptionalByRules(call.pattern)

\* C15 witness: the sequence of an empty sequence, a capture of possibly('a')
\* and a repeated node over 'a' was found not optional, and the anyOf without
\* members optional.
C15_Witness ==
    /\ IsOptionalCall
    /\ call.pattern = ArrayValue(<<ArrayValue(<<>>), capture(possibly(Lit_a)),
                                   RepeatedNode(0, 2, Lit_a, TRUE)>>)
    /\ ret.ok
    /\ ~ret.val
    /\ isPatternOptional(anyOf(<<>>)).val

----------------------------------------------------------------------------
(* Properties of the range constructors *)

\* The value of a hexadecimal string: its digits read in base 16
RECURSIVE HexValue(_)
HexValue(text) ==
    IF Len(text) = 0 THEN 0
    ELSE 16 * HexValue(SubSeq(text, 1, Len(text) - 1))
         + (CHOOSE v \in 0..15 :
               text[Len(text)] \in {HexDigitsLower[v + 1], HexDigitsUpper[v + 1]})

\* The value of an argument of codepointRange
CodeValue(code) == IF isNumber(code) THEN code.value ELSE HexValue(code.text)

IsRangeTokenNamed(result, name) ==
    result.ok /\ result.val.type = "specialToken" /\ result.val.name = name

\* C16: charRange(s, e) raises when the code point of s is greater than that
\* of e and returns a range token otherwise; codepointRange(a, b) raises when
\* the value of a is greater than the value of b and returns a range token
\* otherwise.
C16_RangesOrdered ==
    /\ Done("charRange") /\ Len(call.startChar) = 1 /\ Len(call.endChar) = 1
          => IF CodePointOf(call.startChar[1]) > CodePointOf(call.endChar[1])
             THEN ~ret.ok
             ELSE IsRangeTokenNamed(ret, "charRange")
    /\ Done("codepointRange")
          => IF CodeValue(call.start) > CodeValue(call.end)
             THEN ~ret.ok
             ELSE IsRangeTokenNamed(ret, "codepointRange")

\* C16 witness: charRange('z', 'a') raised.
C16_Witness ==
    /\ Done("charRange")
    /\ call.startChar = <<"z">>
    /\ call.endChar = <<"a">>
    /\ ~ret.ok

\* C16 witness for codepointRange: with the hexadecimal strings 'a0' and 'F'
\* it raised, and with 'F' and 'a0' it returns the token \u{F}-\u{A0}.
C16_WitnessCodepointRange ==
    /\ Done("codepointRange")
    /\ call.start = StringValue(<<"a", "0">>)
    /\ call.end = StringValue(<<"F">>)
    /\ ~ret.ok
    /\ Str(codepointRange(call.end, call.start).val.rawRegExp) = "\\u{F}-\\u{A0}"

----------------------------------------------------------------------------
(* Properties of the encoder on sameAs *)

\* The decimal numeral of a number from 0 to 99
Numeral(n) ==
    IF n < 10 THEN DecimalDigits[n + 1]
    ELSE DecimalDigits[(n \div 10) + 1] \o DecimalDigits[(n % 10) + 1]

\* C17: the node sameAs(n) returns for an integer n from 1 to 99 encodes to
\* `(?:\n)`, and the node sameAs(name) returns for a non-empty name encodes
\* to `\k<name>`.
C17_SameAsEncoding ==
    IsEncodeOf("sameAs")
        => LET reference == call.pattern.captureGroupNameOrIndex
           IN  /\ sameAs(reference) = Return(call.pattern)
               /\ ret.ok
               /\ Str(ret.val) = IF isNumber(reference)
                                 THEN "(?:\\" \o Numeral(reference.value) \o ")"
                                 ELSE "\\k<" \o Str(reference.text) \o ">"

\* C17 witness: sameAs(42) encoded to `(?:\42)`.
C17_Witness ==
    /\ IsEncodeOf("sameAs")
    /\ call.pattern = sameAs(NumberValue(42)).val
    /\ Str(ret.val) = "(?:\\42)"

\* C17 witness for a name: sameAs('stuff') encoded to `\k<stuff>`.
C17_WitnessNamed ==
    /\ IsEncodeOf("sameAs")
    /\ call.pattern = sameAs(StringValue(<<"s", "t", "u", "f", "f">>)).val
    /\ Str(ret.val) = "\\k<stuff>"

----------------------------------------------------------------------------
(* Properties of the flags of buildRegExp *)

\* How often a letter occurs in a flags string
Occurrences(flags, letter) == Cardinality({i \in 1..Len(flags) : flags[i] = letter})

\* The option in effect: the one of buildOptions, or the default
OptionInEffect(name, default) ==
    IF name \in DOMAIN call.buildOptions THEN call.buildOptions[name] ELSE default

OnceIffSet(flags, letter, option) ==
    Occurrences(flags, letter) = (IF option THEN 1 ELSE 0)

\* C18: the flags buildRegExp hands on hold `s` and `u`, never `m` or `v`,
\* and `d`, `g`, `i`, `y` once each when hasIndices, global, ignoreCase, sticky
\* is true and not otherwise, whatever buildOptions holds.
C18_FlagsForOptions ==
    Done("buildRegExp") /\ ret.ok
        => LET flags == ret.val.flags
           IN  /\ Occurrences(flags, "s") = 1
               /\ Occurrences(flags, "u") = 1
               /\ Occurrences(flags, "m") = 0
               /\ Occurrences(flags, "v") = 0
               /\ OnceIffSet(flags, "d", OptionInEffect("hasIndices", TRUE))
               /\ OnceIffSet(flags, "g", OptionInEffect("global", FALSE))
               /\ OnceIffSet(flags, "i", OptionInEffect("ignoreCase", FALSE))
               /\ OnceIffSet(flags, "y", OptionInEffect("sticky", FALSE))
               /\ Len(flags) = Occurrences(flags, "d") + Occurrences(flags, "g")
                               + Occurrences(flags, "i") + Occurrences(flags, "y") + 2

\* C18 witness: buildRegExp with multiline, unicode and hasIndices switched
\* against the forced values and global set gave the flags `gsu`.
C18_Witness ==
    /\ Done("buildRegExp")
    /\ ret.ok
    /\ call.buildOptions = [multiline |-> TRUE, unicode |-> FALSE,
                            hasIndices |-> FALSE, global |-> TRUE]
    /\ Str(ret.val.flags) = "gsu"

----------------------------------------------------------------------------
(* Calls that follow one another *)

----------------------------------------------------------------------------
(* Properties of the encoder on quantifiers and lookarounds *)

LookaroundOpening(type) ==
    CASE type = "precededBy" -> "(?<="
      [] type = "notPrecededBy" -> "(?<!"
      [] type = "followedBy" -> "(?="
      [] type = "notFollowedBy" -> "(?!"

LookaroundTypes == {"precededBy", "notPrecededBy", "followedBy", "notFollowedBy"}

QuantifierTypes == {"possibly", "zeroOrMore", "oneOrMore", "repeated"}

\* C20: a quantifier or lookaround node whose content encodes to the empty
\* string encodes to the empty string; a lookaround whose content encodes to a
\* non-empty string C encodes to `(?<=C)`, `(?<!C)`, `(?=C)` or `(?!C)`.
C20_EmptyContentEncodesEmpty ==
    Done("encodePattern") /\ call.pattern.type \in QuantifierTypes \cup LookaroundTypes
        => /\ EncodesEmpty(call.pattern.content) => ret = Return(<<>>)
           /\ call.pattern.type \in LookaroundTypes /\ EncodesNonEmpty(call.pattern.content)
                 => /\ ret.ok
                    /\ Str(ret.val) =
                          LookaroundOpening(call.pattern.type)
                          \o Str(encodePattern(call.pattern.content, TRUE).val) \o ")"

\* C20 witness: notPrecededBy over a zeroOrMore of the empty sequence encoded
\* to the empty string, and followedBy('cat') encodes to `(?=cat)`.
C20_Witness ==
    /\ Done("encodePattern")
    /\ call.pattern = notPrecededBy(zeroOrMore(ArrayValue(<<>>)))
    /\ ret = Return(<<>>)
    /\ Str(encodePattern(followedBy(Lit_cat), TRUE).val) = "(?=cat)"

----------------------------------------------------------------------------
(* Properties of the capture table of isPatternOptional *)

\* The captures of a pattern that close before its first SameAs, in the order
\* of their opening parentheses, and whether a SameAs was found
RECURSIVE CapturesBefore(_, _)
RECURSIVE CapturesBeforeAll(_, _, _)
CapturesBeforeAll(patterns, i, captures) ==
    IF i > Len(patterns) THEN [captures |-> captures, found |-> FALSE]
    ELSE LET first == CapturesBefore(patterns[i], captures)
         IN  IF first.found THEN first
             ELSE CapturesBeforeAll(patterns, i + 1, first.captures)

CapturesBefore(pattern, captures) ==
    IF isString(pattern) \/ pattern.type \in {"specialToken", "notAnyOf"}
    THEN [captures |-> captures, found |-> FALSE]
    ELSE IF isArray(pattern) THEN CapturesBeforeAll(pattern.elements, 1, captures)
    ELSE IF pattern.type = "anyOf" THEN CapturesBeforeAll(pattern.members, 1, captures)
    ELSE IF pattern.type = "sameAs" THEN [captures |-> captures, found |-> TRUE]
    ELSE IF pattern.type = "capture"
    THEN LET inside == CapturesBefore(pattern.content, <<>>)
         IN  IF inside.found
             THEN [captures |-> captures \o inside.captures, found |-> TRUE]
             ELSE [captures |-> captures \o <<pattern>> \o inside.captures,
                   found |-> FALSE]
    ELSE CapturesBefore(pattern.content, captures)

\* One entry for each of those captures: the optionality of its content
ExpectedCaptureTable(pattern) ==
    LET captures == CapturesBefore(pattern, <<>>).captures
    IN  [i \in 1..Len(captures) |-> OptionalByRules(captures[i].content)]

\* C21 as stated: when isPatternOptional evaluates the first SameAs of a
\* pattern, the positional table holds one entry for every capture that
\* precedes it, those inside possibly, zeroOrMore and other captures among
\* them, in the order of the opening parentheses.
C21_AsClaimed ==
    IsOptionalCall /\ Len(ret.tables.lookups) > 0
        => ret.tables.lookups[1].captureGroupLookup = ExpectedCaptureTable(call.pattern)

----------------------------------------------------------------------------
(* Properties of the character classes *)

AllAtomic(members) == \A i \in 1..Len(members) : IsAtomicMember(members[i])

\* C22 as stated: the class encodePattern writes for an anyOf of single code
\* points and class tokens, inputStart among them, never opens with `[^`.
C22_AsClaimed ==
    /\ IsEncodeOf("anyOf")
    /\ Len(call.pattern.members) > 0
    /\ AllAtomic(call.pattern.members)
    /\ ret.ok
    => ~(Len(ret.val) >= 5 /\ SubSeq(ret.val, 1, 5) = <<"(", "?", ":", "[", "^">>)

\* C23 as stated: in the class encodePattern writes for a notAnyOf of single
\* code points and class tokens, the unescaped hyphens are the range operators
\* of the range tokens among the members; a member '-' stands escaped.
C23_AsClaimed ==
    /\ IsEncodeOf("notAnyOf")
    /\ AllAtomic(call.pattern.members)
    /\ ret.ok
    => Cardinality(Unescaped(ret.val, "-"))
          = Cardinality(RangeMembers(call.pattern.members))

====
